---- MODULE Spec2Model ----
(***************************************************************************)
(* A model of the cidr-calculator-github program: the membership lookup    *)
(* over a list of labelled CIDR blocks, the range evaluator with its       *)
(* enumeration threshold, the fetch of the block list with its on-disk    *)
(* cache, the payload parser, main with its two input modes, the store as  *)
(* outside code and concurrent callers use it.                             *)
(*                                                                         *)
(* Texts (labels, signatures) are sequences of byte codes, so that the     *)
(* byte-wise order of sort.Strings and the result of strings.Join are      *)
(* computed and not assumed.  Addresses are sequences of 4 or 16 bytes     *)
(* (netip.Addr.As4 / As16); the zero Addr is the empty sequence.           *)
(***************************************************************************)
EXTENDS Integers, Sequences, FiniteSets, TLC

\* ------------------------------------------------------------------ bounds
\* longest store drawn in Init of Spec
MaxEntries == 3
\* fetches made in one behaviour of FetchSpec
MaxFetches == 3
\* most arguments, or lines of standard input, of one run of main
MaxArgs == 2
\* goroutines calling into one store at the same time
NCallers == 2
\* []Entry backing arrays alive in one behaviour of ApiSpec
MaxArrays == 4
\* element writes outside code makes in one behaviour of ApiSpec
MaxWrites == 2
\* most keys of a payload drawn in ParseInit
MaxKeys == 2

\* ------------------------------------------------------------- byte texts
RECURSIVE BitOr(_, _)
\* x | y on non-negative integers
BitOr(x, y) ==
    IF x = 0 THEN y
    ELSE IF y = 0 THEN x
    ELSE (IF (x % 2) + (y % 2) > 0 THEN 1 ELSE 0) + 2 * BitOr(x \div 2, y \div 2)

RECURSIVE StrLess(_, _)
\* s < t for Go strings: byte-wise lexicographic order
StrLess(s, t) ==
    IF t = <<>> THEN FALSE
    ELSE IF s = <<>> THEN TRUE
    ELSE IF Head(s) # Head(t) THEN Head(s) < Head(t)
    ELSE StrLess(Tail(s), Tail(t))

RECURSIVE InsertSorted(_, _)
InsertSorted(x, sorted) ==
    IF sorted = <<>> THEN <<x>>
    ELSE IF StrLess(x, Head(sorted)) THEN <<x>> \o sorted
    ELSE <<Head(sorted)>> \o InsertSorted(x, Tail(sorted))

RECURSIVE SortStrings(_)
\* sort.Strings: the strings of xs in ascending byte-wise order
SortStrings(xs) ==
    IF xs = <<>> THEN <<>>
    ELSE InsertSorted(Head(xs), SortStrings(Tail(xs)))

RECURSIVE Join(_, _)
\* strings.Join(elems, sep)
Join(elems, sep) ==
    IF elems = <<>> THEN <<>>
    ELSE IF Len(elems) = 1 THEN elems[1]
    ELSE elems[1] \o sep \o Join(Tail(elems), sep)

Range(s) == {s[i] : i \in DOMAIN s}

\* ------------------------------------------------------------- netip.Addr
ZeroAddr == <<>>
IsValid(a) == Len(a) = 4 \/ Len(a) = 16
Is4(a) == Len(a) = 4
Is6(a) == Len(a) = 16
BitLen(a) == 8 * Len(a)

\* bit i of a, counted from the most significant bit of the first byte
Bit(a, i) == (a[(i \div 8) + 1] \div (2 ^ (7 - (i % 8)))) % 2

RECURSIVE Incr(_, _)
\* bytes 1..k of a plus one, with carry; <<>> when the carry leaves the address
Incr(a, k) ==
    IF k = 0 THEN <<>>
    ELSE IF a[k] < 255 THEN [a EXCEPT ![k] = a[k] + 1]
    ELSE Incr([a EXCEPT ![k] = 0], k - 1)

\* netip.Addr.Next: the address following a, the zero Addr after the last one
AddrNext(a) == IF ~IsValid(a) THEN ZeroAddr ELSE Incr(a, Len(a))

\* netip.Prefix.Contains: same family and the first p.bits bits agree
Contains(p, ip) ==
    /\ IsValid(p.addr)
    /\ IsValid(ip)
    /\ BitLen(p.addr) = BitLen(ip)
    /\ \A i \in 0..(p.bits - 1) : Bit(p.addr, i) = Bit(ip, i)

\* ---------------------------------------------------------- parsing input
(* A raw input text is kept by its syntactic parts: the address text       *)
(* (addr, ZeroAddr when it is not the text of an address), whether a       *)
(* "/" follows, and the number after it.                                   *)
Raw(a, slash, n) == [addr |-> a, slash |-> slash, bits |-> n]

\* netip.ParseAddr: a bare address and nothing else
ParseAddrOK(raw) == ~raw.slash /\ IsValid(raw.addr)

\* netip.ParsePrefix: address "/" bits, bits within the family's width; the
\* address bits beyond the prefix length are kept as written (not masked)
ParsePrefixOK(raw) ==
    /\ raw.slash
    /\ IsValid(raw.addr)
    /\ raw.bits \in 0..BitLen(raw.addr)

ParsePrefix(raw) == [addr |-> raw.addr, bits |-> raw.bits]

(* The error of a parse: the function that reports it, which its text      *)
(* starts with, and the reason that follows.                               *)
NoReason == [by |-> "", msg |-> ""]
\* the error of netip.ParseAddr: a "/" after an address is an unexpected
\* character, any other text is not an address
ParseAddrErr(raw) ==
    IF ParseAddrOK(raw) THEN NoReason
    ELSE [by |-> "ParseAddr",
          msg |-> IF IsValid(raw.addr) THEN "unexpected character"
                  ELSE "unable to parse IP"]
\* the error of netip.ParsePrefix: no "/", the error of ParseAddr on the
\* part before the "/", or a prefix length beyond the family's width
ParsePrefixErr(raw) ==
    IF ParsePrefixOK(raw) THEN NoReason
    ELSE [by |-> "netip.ParsePrefix",
          msg |-> IF ~raw.slash THEN "no '/'"
                  ELSE IF ~IsValid(raw.addr) THEN "ParseAddr: unable to parse IP"
                  ELSE "prefix length out of range"]

\* ------------------------------------------------------- MetaData.Lookup
Entry(label, a, n) == [Label |-> label, Prefix |-> [addr |-> a, bits |-> n]]

RECURSIVE LookupScan(_, _, _, _)
\* the loop over m.entries: a label is appended the first time an entry
\* under it contains addr
LookupScan(entries, addr, labels, seen) ==
    IF entries = <<>> THEN labels
    ELSE LET entry == Head(entries)
             hit == Contains(entry.Prefix, addr) /\ entry.Label \notin seen
         IN LookupScan(Tail(entries), addr,
                       IF hit THEN Append(labels, entry.Label) ELSE labels,
                       IF hit THEN seen \cup {entry.Label} ELSE seen)

\* Lookup without the nil test: reading m.entries of a nil store panics
Lookup_NoNilCheck(m, addr) ==
    IF m.nil THEN <<"panic: nil pointer dereference">>
    ELSE IF ~IsValid(addr) THEN <<>>
    ELSE SortStrings(LookupScan(m.entries, addr, <<>>, {}))

\* Lookup returning the labels in scan order
Lookup_Unsorted(m, addr) ==
    IF m.nil \/ ~IsValid(addr) THEN <<>>
    ELSE LookupScan(m.entries, addr, <<>>, {})

Lookup(m, addr) ==
    IF m.nil \/ ~IsValid(addr) THEN <<>>
    ELSE SortStrings(LookupScan(m.entries, addr, <<>>, {}))

\* newMetaData: the store holds a copy of the entries, in the order given
newMetaData(entries) == [nil |-> FALSE, entries |-> entries]
NilMeta == [nil |-> TRUE, entries |-> <<>>]

\* ------------------------------------------------------ lastAddrInPrefix
\* lastAddrInPrefix storing the mask in the mixed byte instead of or-ing it in
lastAddrInPrefix_MaskStored(prefix) ==
    LET a == prefix.addr
        bits == prefix.bits
        n == IF Is4(a) THEN 4 ELSE 16
    IN [k \in 1..n |->
          LET byteStart == (k - 1) * 8
              byteEnd == byteStart + 8
          IN IF byteEnd <= bits THEN a[k]
             ELSE IF byteStart >= bits THEN 255
             ELSE ((2 ^ (byteEnd - bits)) - 1) % 256]

\* lastAddrInPrefix taking one bit too many for the host part
lastAddrInPrefix_OneHostBitMore(prefix) ==
    LET a == prefix.addr
        bits == IF prefix.bits > 0 THEN prefix.bits - 1 ELSE 0
        n == IF Is4(a) THEN 4 ELSE 16
    IN [k \in 1..n |->
          LET byteStart == (k - 1) * 8
              byteEnd == byteStart + 8
          IN IF byteEnd <= bits THEN a[k]
             ELSE IF byteStart >= bits THEN 255
             ELSE BitOr(a[k], ((2 ^ (byteEnd - bits)) - 1) % 256)]

\* lastAddrInPrefix: byte by byte, a network byte kept, a host byte set to
\* 0xff, a mixed byte or-ed with the mask of its host bits
lastAddrInPrefix(prefix) ==
    LET a == prefix.addr
        bits == prefix.bits
        n == IF Is4(a) THEN 4 ELSE 16
    IN [k \in 1..n |->
          LET byteStart == (k - 1) * 8
              byteEnd == byteStart + 8
          IN IF byteEnd <= bits THEN a[k]
             ELSE IF byteStart >= bits THEN 255
             ELSE BitOr(a[k], ((2 ^ (byteEnd - bits)) - 1) % 256)]

\* ------------------------------------------------------------ the counter
(* count is a uint64.  It is kept as four 16-bit limbs, least significant  *)
(* first, because 1 << 63 is beyond the integers TLC computes with.        *)
defaultThreshold == 4096

\* uint64(1) << h; Go shifts every bit out when h >= 64
Shl1(h) == [i \in 1..4 |-> IF h < 64 /\ (h \div 16) + 1 = i THEN 2 ^ (h % 16) ELSE 0]
\* a small non-negative integer as a uint64
U64(n) == <<n % 65536, n \div 65536, 0, 0>>
\* c > n for a uint64 c and a small non-negative n
U64Gt(c, n) ==
    \/ c[4] > 0
    \/ c[3] > 0
    \/ c[2] > n \div 65536
    \/ c[2] = n \div 65536 /\ c[1] > n % 65536

\* addrBits - bits in evaluateCIDR
hostBitsOf(prefix) == (IF Is6(prefix.addr) THEN 128 ELSE 32) - prefix.bits

\* the count computed with the shift alone, which wraps to 0 from 64 host bits on
countOf_Wrapping(prefix) == Shl1(hostBitsOf(prefix))

\* the count computed by evaluateCIDR
countOf(prefix) ==
    IF hostBitsOf(prefix) >= 64 THEN U64(defaultThreshold + 1)
    ELSE Shl1(hostBitsOf(prefix))

\* ------------------------------------------------------ netip text forms
RECURSIVE Itoa(_)
\* the decimal digits of n >= 0
Itoa(n) == IF n < 10 THEN <<48 + n>> ELSE Itoa(n \div 10) \o <<48 + (n % 10)>>

RECURSIVE Hex(_)
\* the lower-case hexadecimal digits of n >= 0, without leading zeros
Hex(n) ==
    LET d == n % 16
        c == IF d < 10 THEN 48 + d ELSE 87 + d
    IN IF n < 16 THEN <<c>> ELSE Hex(n \div 16) \o <<c>>

\* a.b.c.d
String4(b) == Itoa(b[1]) \o <<46>> \o Itoa(b[2]) \o <<46>> \o Itoa(b[3]) \o <<46>> \o Itoa(b[4])

\* the 16-bit group i (0..7) of a 16-byte address
V6u16(a, i) == a[2 * i + 1] * 256 + a[2 * i + 2]

RECURSIVE ZeroRun(_, _)
\* the end j of the run of zero groups starting at group i
ZeroRun(a, i) == IF i < 8 /\ V6u16(a, i) = 0 THEN ZeroRun(a, i + 1) ELSE i

\* the first longest run of two or more zero groups, <<255, 255>> if none
ZeroSpan(a) ==
    LET len(i) == ZeroRun(a, i) - i
        cands == { i \in 0..7 : len(i) >= 2 /\ \A k \in 0..7 : len(k) <= len(i) }
    IN IF cands = {} THEN <<255, 255>>
       ELSE LET i == CHOOSE c \in cands : \A k \in cands : c <= k
            IN <<i, ZeroRun(a, i)>>

RECURSIVE String6From(_, _, _)
\* the groups from i on, the zero span z written as "::"
String6From(a, i, z) ==
    IF i >= 8 THEN <<>>
    ELSE IF i = z[1]
         THEN <<58, 58>> \o (IF z[2] >= 8 THEN <<>>
                             ELSE Hex(V6u16(a, z[2])) \o String6From(a, z[2] + 1, z))
         ELSE (IF i > 0 THEN <<58>> ELSE <<>>) \o Hex(V6u16(a, i))
              \o String6From(a, i + 1, z)

Is4In6(a) == Is6(a) /\ (\A k \in 1..10 : a[k] = 0) /\ a[11] = 255 /\ a[12] = 255

\* netip.Addr.String
AddrString(a) ==
    IF Is4(a) THEN String4(a)
    ELSE IF Is4In6(a) THEN <<58, 58, 102, 102, 102, 102, 58>> \o String4(SubSeq(a, 13, 16))
    ELSE String6From(a, 0, ZeroSpan(a))

\* netip.Prefix.String: the canonical text of a block
PrefixString(p) == AddrString(p.addr) \o <<47>> \o Itoa(p.bits)

\* -------------------------------------------------------------- the payload
(* A payload is the raw body of a response or of the cache file: whether   *)
(* it decodes to a JSON object, and the object's keys with their values in *)
(* the order of the text.  A value is a list of items or something else;   *)
(* an item is a string (kept as the parts ParsePrefix reads) or not.       *)
Str(r) == [str |-> TRUE, text |-> r]
NotStr == [str |-> FALSE, text |-> Raw(ZeroAddr, FALSE, 0)]
List(items) == [list |-> TRUE, items |-> items]
NotList == [list |-> FALSE, items |-> <<>>]
Member(key, val) == [key |-> key, val |-> val]
Object(members) == [ok |-> TRUE, obj |-> members]
Undecodable == [ok |-> FALSE, obj |-> <<>>]

\* the orders in which a map of n keys can be visited
Orders(n) == { f \in [1..n -> 1..n] : \A i, j \in 1..n : i # j => f[i] # f[j] }

\* extractStringSlice passing over the items that are no strings
extractStringSlice_SkipNonStrings(value) ==
    IF ~value.list THEN [ok |-> FALSE, out |-> <<>>]
    ELSE LET strs == SelectSeq(value.items, LAMBDA it : it.str)
         IN [ok |-> TRUE, out |-> [i \in DOMAIN strs |-> strs[i].text]]

\* extractStringSlice: the strings of a list made of strings only
extractStringSlice(value) ==
    IF ~value.list \/ (\E i \in DOMAIN value.items : ~value.items[i].str)
    THEN [ok |-> FALSE, out |-> <<>>]
    ELSE [ok |-> TRUE, out |-> [i \in DOMAIN value.items |-> value.items[i].text]]

RECURSIVE CidrEntries(_, _)
\* the inner loop of parseMetaJSON: one entry per string that parses as a prefix
CidrEntries(label, cidrs) ==
    IF cidrs = <<>> THEN <<>>
    ELSE (IF ParsePrefixOK(Head(cidrs))
          THEN <<[Label |-> label, Prefix |-> ParsePrefix(Head(cidrs))]>>
          ELSE <<>>) \o CidrEntries(label, Tail(cidrs))

RECURSIVE KeyEntries(_, _, _)
\* the outer loop of parseMetaJSON over the keys in the order ord, from the k-th on
KeyEntries(obj, ord, k) ==
    IF k > Len(obj) THEN <<>>
    ELSE LET m == obj[ord[k]]
             cidrs == extractStringSlice(m.val)
         IN (IF cidrs.ok THEN CidrEntries(m.key, cidrs.out) ELSE <<>>)
            \o KeyEntries(obj, ord, k + 1)

\* a less function that compares the blocks' addresses as numbers, not the
\* blocks' texts
EntryLess_ByAddress(x, y) ==
    IF x.Label = y.Label THEN StrLess(x.Prefix.addr, y.Prefix.addr)
    ELSE StrLess(x.Label, y.Label)

\* the less function given to sort.Slice
EntryLess(x, y) ==
    IF x.Label = y.Label THEN StrLess(PrefixString(x.Prefix), PrefixString(y.Prefix))
    ELSE StrLess(x.Label, y.Label)

RECURSIVE InsertEntry(_, _)
InsertEntry(x, sorted) ==
    IF sorted = <<>> THEN <<x>>
    ELSE IF EntryLess(x, Head(sorted)) THEN <<x>> \o sorted
    ELSE <<Head(sorted)>> \o InsertEntry(x, Tail(sorted))

RECURSIVE SortEntries(_)
\* sort.Slice(entries, less); entries that compare equal are the same entry
SortEntries(es) ==
    IF es = <<>> THEN <<>>
    ELSE InsertEntry(Head(es), SortEntries(Tail(es)))

\* parseMetaJSON leaving the entries in the order the keys were visited
parseMetaJSON_Unsorted(payload, ord) ==
    IF ~payload.ok THEN [err |-> "decode", entries |-> <<>>]
    ELSE LET es == KeyEntries(payload.obj, ord, 1)
         IN IF Len(es) = 0 THEN [err |-> "empty", entries |-> <<>>]
            ELSE [err |-> "", entries |-> es]

\* parseMetaJSON, the keys of the decoded map visited in the order ord
parseMetaJSON(payload, ord) ==
    IF ~payload.ok THEN [err |-> "decode", entries |-> <<>>]
    ELSE LET es == KeyEntries(payload.obj, ord, 1)
         IN IF Len(es) = 0 THEN [err |-> "empty", entries |-> <<>>]
            ELSE [err |-> "", entries |-> SortEntries(es)]

\* ---------------------------------------------------------------- the cache
(* The cache location: whether caching is on (a non-nil cacheStore), and   *)
(* the two files meta.json and meta.etag.                                  *)
File(data) == [exists |-> TRUE, data |-> data]
NoMetaFile == [exists |-> FALSE, data |-> Undecodable]
NoEtagFile == [exists |-> FALSE, data |-> <<>>]

IsSpace(c) == c \in {9, 10, 11, 12, 13, 32}
RECURSIVE TrimLeft(_)
TrimLeft(t) == IF t # <<>> /\ IsSpace(Head(t)) THEN TrimLeft(Tail(t)) ELSE t
RECURSIVE TrimRight(_)
TrimRight(t) ==
    IF t # <<>> /\ IsSpace(t[Len(t)]) THEN TrimRight(SubSeq(t, 1, Len(t) - 1)) ELSE t
\* bytes.TrimSpace
TrimSpace(t) == TrimRight(TrimLeft(t))

\* cacheStore.readETag returning the file's bytes as they are
readETag_NoTrim(c) ==
    IF ~c.on THEN <<>>
    ELSE IF ~c.etag.exists THEN <<>>
    ELSE c.etag.data

\* cacheStore.readETag
readETag(c) ==
    IF ~c.on THEN <<>>
    ELSE IF ~c.etag.exists THEN <<>>
    ELSE TrimSpace(c.etag.data)

\* cacheStore.load
load(c, ord) ==
    IF ~c.on THEN [err |-> "cache disabled", meta |-> NilMeta]
    ELSE IF ~c.meta.exists THEN [err |-> "read", meta |-> NilMeta]
    ELSE LET parsed == parseMetaJSON(c.meta.data, ord)
         IN IF parsed.err # "" THEN [err |-> parsed.err, meta |-> NilMeta]
            ELSE [err |-> "", meta |-> newMetaData(parsed.entries)]

\* cacheStore.save writing the payload only when the response has a token
save_PayloadWithTokenOnly(c, body, etag, fs) ==
    IF ~c.on THEN c
    ELSE IF ~fs.mkdir THEN c
    ELSE IF etag = <<>> THEN c
    ELSE IF ~fs.writeMeta THEN c
    ELSE IF ~fs.writeEtag THEN [c EXCEPT !.meta = File(body)]
    ELSE [c EXCEPT !.meta = File(body), !.etag = File(etag)]

\* cacheStore.save: the cache after it; fs tells which of MkdirAll and the
\* two WriteFile calls succeed, a failing call leaving its file as it was
save(c, body, etag, fs) ==
    IF ~c.on THEN c
    ELSE IF ~fs.mkdir THEN c
    ELSE IF ~fs.writeMeta THEN c
    ELSE IF etag = <<>> THEN [c EXCEPT !.meta = File(body)]
    ELSE IF ~fs.writeEtag THEN [c EXCEPT !.meta = File(body)]
    ELSE [c EXCEPT !.meta = File(body), !.etag = File(etag)]

\* ------------------------------------------------------------------- fetch
(* What one call of fetch meets: the outcome of client.Do (net), the       *)
(* response's status, ETag header and body, whether io.ReadAll succeeds,   *)
(* and which file system calls of save succeed.                            *)
Env(net, status, etag, body, readOK, fs) ==
    [net |-> net, status |-> status, etag |-> etag, body |-> body,
     readOK |-> readOK, fs |-> fs]
Fs(mkdir, writeMeta, writeEtag) ==
    [mkdir |-> mkdir, writeMeta |-> writeMeta, writeEtag |-> writeEtag]

Outcome(err, m, c, sent, loaded) ==
    [err |-> err, meta |-> m, cache |-> c, requests |-> 1, ifNoneMatch |-> sent,
     loadTried |-> loaded]

\* cacheStore.save returns an error: a file system call it makes fails
saveFails(c, etag, fs) ==
    /\ c.on
    /\ \/ ~fs.mkdir
       \/ ~fs.writeMeta
       \/ (etag # <<>> /\ ~fs.writeEtag)

\* fetch returning the error of store.save instead of ignoring it
fetch_SaveErrorFatal(c, e, ord) ==
    LET sent == readETag(c)
        cached == load(c, ord)
    IN IF e.net = "error"
       THEN IF cached.err = "" THEN Outcome("", cached.meta, c, sent, TRUE)
            ELSE Outcome("transport", NilMeta, c, sent, TRUE)
       ELSE IF e.status = 304
       THEN IF cached.err # "" THEN Outcome("load304", NilMeta, c, sent, TRUE)
            ELSE Outcome("", cached.meta, c, sent, TRUE)
       ELSE IF e.status = 200
       THEN IF ~e.readOK THEN Outcome("read", NilMeta, c, sent, FALSE)
            ELSE LET parsed == parseMetaJSON(e.body, ord)
                     saved == save(c, e.body, e.etag, e.fs)
                 IN IF parsed.err # "" THEN Outcome(parsed.err, NilMeta, c, sent, FALSE)
                    ELSE IF saveFails(c, e.etag, e.fs)
                    THEN Outcome("save", NilMeta, saved, sent, FALSE)
                    ELSE Outcome("", newMetaData(parsed.entries), saved, sent, FALSE)
       ELSE IF cached.err = "" THEN Outcome("", cached.meta, c, sent, TRUE)
            ELSE Outcome("status", NilMeta, c, sent, TRUE)

\* fetch saving the body of a 200 response before parsing it
fetch_SaveBeforeParse(c, e, ord) ==
    LET sent == readETag(c)
        cached == load(c, ord)
    IN IF e.net = "error"
       THEN IF cached.err = "" THEN Outcome("", cached.meta, c, sent, TRUE)
            ELSE Outcome("transport", NilMeta, c, sent, TRUE)
       ELSE IF e.status = 304
       THEN IF cached.err # "" THEN Outcome("load304", NilMeta, c, sent, TRUE)
            ELSE Outcome("", cached.meta, c, sent, TRUE)
       ELSE IF e.status = 200
       THEN IF ~e.readOK THEN Outcome("read", NilMeta, c, sent, FALSE)
            ELSE LET parsed == parseMetaJSON(e.body, ord)
                     saved == save(c, e.body, e.etag, e.fs)
                 IN IF parsed.err # "" THEN Outcome(parsed.err, NilMeta, saved, sent, FALSE)
                    ELSE Outcome("", newMetaData(parsed.entries), saved, sent, FALSE)
       ELSE IF cached.err = "" THEN Outcome("", cached.meta, c, sent, TRUE)
            ELSE Outcome("status", NilMeta, c, sent, TRUE)

\* fetch: the error or store returned, the cache left behind, the one request
\* sent with its If-None-Match header, and whether store.load was called
fetch(c, e, ord) ==
    LET sent == readETag(c)
        cached == load(c, ord)
    IN IF e.net = "error"
       THEN IF cached.err = "" THEN Outcome("", cached.meta, c, sent, TRUE)
            ELSE Outcome("transport", NilMeta, c, sent, TRUE)
       ELSE IF e.status = 304
       THEN IF cached.err # "" THEN Outcome("load304", NilMeta, c, sent, TRUE)
            ELSE Outcome("", cached.meta, c, sent, TRUE)
       ELSE IF e.status = 200
       THEN IF ~e.readOK THEN Outcome("read", NilMeta, c, sent, FALSE)
            ELSE LET parsed == parseMetaJSON(e.body, ord)
                 IN IF parsed.err # "" THEN Outcome(parsed.err, NilMeta, c, sent, FALSE)
                    ELSE Outcome("", newMetaData(parsed.entries),
                                 save(c, e.body, e.etag, e.fs), sent, FALSE)
       ELSE IF cached.err = "" THEN Outcome("", cached.meta, c, sent, TRUE)
            ELSE Outcome("status", NilMeta, c, sent, TRUE)

\* ------------------------------------------------------------------ state
VARIABLES
    meta,           \* the store handed to evaluateInput
    pc,             \* "ready", or "loop" inside evaluateCIDR's for loop
    raw,            \* the input being evaluated
    prefix,         \* evaluateCIDR: the parsed prefix
    addr,           \* evaluateCIDR: the loop's current address
    lastAddr,       \* evaluateCIDR: lastAddrInPrefix(prefix)
    ownedCount,     \* evaluateCIDR: ownedCount
    nonOwnedCount,  \* evaluateCIDR: nonOwnedCount
    labelSets,      \* evaluateCIDR: signature -> count
    lookedAddr,     \* the argument of the latest meta.Lookup call
    labels,         \* the result of the latest meta.Lookup call
    lookupCalls,    \* meta.Lookup calls made for the current input
    groups,         \* <<signature, label set>> pairs counted for the current input
    report,         \* what the latest finished evaluation printed
    cache,          \* the cache location: caching on, meta.json, meta.etag
    fetchN,         \* fetches made so far
    env,            \* what the latest fetch met
    before,         \* the cache location when the latest fetch started
    out,            \* what the latest fetch returned and did
    persisted,      \* the payload most recently written to meta.json by a fetch
    writer,         \* the store returned by the fetch that wrote meta.json
    cancelled,      \* where the latest fetch's context ended: "none", "before", "body"
    origin,         \* the payload the origin held at the latest fetch, and its token
    tokenLog,       \* the ETag of the last 200 response that had one, and the
                    \* ETag last written to meta.etag by a fetch of this run, each
                    \* now and when the latest fetch began (<<>> for none)
    interactive,    \* main: no command-line argument was given
    argv,           \* main: the arguments, or the lines standard input holds
    argi,           \* main: the position of the next argument or line
    printed,        \* main: the reports printed so far, in order
    exitCode,       \* main: -1 while running, then the process's exit status
    memo,           \* main: address -> the labels its first Lookup of the run returned
    acquired,       \* main: the cache location and the fetch count as Fetch left them
    callers,        \* concurrent callers of one store: each caller's local variables
    heap,           \* the backing arrays of []Entry slices, by array number
    storeRef,       \* -1 before construction, 0 for a nil *MetaData, else the
                    \* number of the array m.entries points to
    held,           \* the arrays outside code holds a slice of
    orig,           \* the entries handed to the constructor, as they were then
    apiOut,         \* the latest call on the store and what it returned
    apiWrites,      \* element writes outside code has made to slices it holds
    reader,        \* the reader handed to parseMetaJSON
    keyOrder,       \* the order in which the call visited the decoded map's keys
    parsed          \* what the call returned

evalVars == <<meta, pc, raw, prefix, addr, lastAddr, ownedCount, nonOwnedCount,
              labelSets, lookedAddr, labels, lookupCalls, groups, report>>
fetchVars == <<cache, fetchN, env, before, out, persisted, writer, cancelled,
               tokenLog, origin>>
mainVars == <<interactive, argv, argi, printed, exitCode, memo, acquired>>
apiVars == <<heap, storeRef, held, orig, apiOut, apiWrites>>
parseVars == <<reader, keyOrder, parsed>>
otherVars == <<mainVars, callers, apiVars, parseVars>>
vars == <<evalVars, fetchVars, otherVars>>

\* --------------------------------------------------------------- reports
NoPrefix == [addr |-> ZeroAddr, bits |-> 0]
NoRaw == Raw(ZeroAddr, FALSE, 0)
Report(kind, ls, count, total, owned, notOwned, dist) ==
    [kind |-> kind, labels |-> ls, count |-> count, threshold |-> defaultThreshold,
     total |-> total, owned |-> owned, notOwned |-> notOwned, dist |-> dist,
     reason |-> NoReason]
\* the "invalid IP address or CIDR (%v)" line: err is the variable assigned
\* last, by netip.ParsePrefix
InvalidReport(r) ==
    [Report("invalid", <<>>, U64(0), 0, 0, 0, <<>>) EXCEPT !.reason = ParsePrefixErr(r)]
NoReport == Report("none", <<>>, U64(0), 0, 0, 0, <<>>)

RECURSIVE SeqOfSet(_)
\* the elements of a finite set in some order (Go's map iteration order)
SeqOfSet(S) ==
    IF S = {} THEN <<>>
    ELSE LET x == CHOOSE y \in S : TRUE IN <<x>> \o SeqOfSet(S \ {x})

\* the "Label distribution" lines: the signatures sorted, each with its count
Distribution(sets) ==
    LET sigs == SortStrings(SeqOfSet(DOMAIN sets))
    IN [i \in 1..Len(sigs) |-> [sig |-> sigs[i], n |-> sets[sigs[i]]]]

\* labelSets[sig] = 1 in place of labelSets[sig]++
Bump_SetToOne(sets, sig) ==
    [s \in (DOMAIN sets) \cup {sig} |-> IF s = sig THEN 1 ELSE sets[s]]

\* labelSets[sig]++
Bump(sets, sig) ==
    IF sig \in DOMAIN sets THEN [sets EXCEPT ![sig] = @ + 1]
    ELSE [s \in (DOMAIN sets) \cup {sig} |-> IF s = sig THEN 1 ELSE sets[s]]

\* the signature of a label list: sorted and joined with ","
Signature(ls) == Join(SortStrings(ls), <<44>>)

\* count > defaultThreshold
TooLarge(count) == U64Gt(count, defaultThreshold)

\* --------------------------------------------------------------- actions
\* evaluateAddr answering from a one-slot cache of the latest Lookup result
\* that is not keyed by the address
evaluateAddr_StaleCache(a) ==
    /\ pc' = "ready"
    /\ lookedAddr' = a
    /\ labels' = IF lookupCalls > 0 THEN labels ELSE Lookup(meta, a)
    /\ lookupCalls' = 1
    /\ report' = Report("addr", labels', U64(0), 0, 0, 0, <<>>)
    /\ prefix' = NoPrefix
    /\ addr' = ZeroAddr
    /\ lastAddr' = ZeroAddr
    /\ ownedCount' = 0
    /\ nonOwnedCount' = 0
    /\ labelSets' = <<>>
    /\ groups' = {}

\* evaluateAddr: one Lookup, reported as owned (labels) or not owned
evaluateAddr(a) ==
    /\ pc' = "ready"
    /\ lookedAddr' = a
    /\ labels' = Lookup(meta, a)
    /\ lookupCalls' = 1
    /\ report' = Report("addr", Lookup(meta, a), U64(0), 0, 0, 0, <<>>)
    /\ prefix' = NoPrefix
    /\ addr' = ZeroAddr
    /\ lastAddr' = ZeroAddr
    /\ ownedCount' = 0
    /\ nonOwnedCount' = 0
    /\ labelSets' = <<>>
    /\ groups' = {}

\* evaluateInput when both parses fail
InvalidInput ==
    /\ pc' = "ready"
    /\ report' = InvalidReport(raw')
    /\ lookedAddr' = ZeroAddr
    /\ labels' = <<>>
    /\ lookupCalls' = 0
    /\ prefix' = NoPrefix
    /\ addr' = ZeroAddr
    /\ lastAddr' = ZeroAddr
    /\ ownedCount' = 0
    /\ nonOwnedCount' = 0
    /\ labelSets' = <<>>
    /\ groups' = {}

\* evaluateCIDR with its counters and its distribution kept from the input
\* before, as if they were package-level variables
evaluateCIDR_KeepCounts(p) ==
    /\ prefix' = p
    /\ lookedAddr' = ZeroAddr
    /\ labels' = <<>>
    /\ lookupCalls' = 0
    /\ UNCHANGED <<ownedCount, nonOwnedCount, labelSets>>
    /\ groups' = {}
    /\ IF TooLarge(countOf(p))
       THEN /\ pc' = "ready"
            /\ report' = Report("toolarge", <<>>, countOf(p), 0, 0, 0, <<>>)
            /\ addr' = ZeroAddr
            /\ lastAddr' = ZeroAddr
       ELSE /\ pc' = "loop"
            /\ report' = NoReport
            /\ addr' = p.addr
            /\ lastAddr' = lastAddrInPrefix(p)

\* evaluateCIDR up to the for loop: the size check, then the loop's variables
evaluateCIDR(p) ==
    /\ prefix' = p
    /\ lookedAddr' = ZeroAddr
    /\ labels' = <<>>
    /\ lookupCalls' = 0
    /\ ownedCount' = 0
    /\ nonOwnedCount' = 0
    /\ labelSets' = <<>>
    /\ groups' = {}
    /\ IF TooLarge(countOf(p))
       THEN /\ pc' = "ready"
            /\ report' = Report("toolarge", <<>>, countOf(p), 0, 0, 0, <<>>)
            /\ addr' = ZeroAddr
            /\ lastAddr' = ZeroAddr
       ELSE /\ pc' = "loop"
            /\ report' = NoReport
            /\ addr' = p.addr
            /\ lastAddr' = lastAddrInPrefix(p)

\* evaluateInput reading the address part of a text that fails both parses
evaluateInput_AddressPart(r) ==
    /\ raw' = r
    /\ meta' = meta
    /\ IF ParseAddrOK(r) THEN evaluateAddr(r.addr)
       ELSE IF ~ParsePrefixOK(r)
            THEN (IF IsValid(r.addr) THEN evaluateAddr(r.addr) ELSE InvalidInput)
       ELSE evaluateCIDR(ParsePrefix(r))

\* evaluateInput: a bare address first, then a prefix, else invalid
evaluateInput(r) ==
    /\ raw' = r
    /\ meta' = meta
    /\ IF ParseAddrOK(r) THEN evaluateAddr(r.addr)
       ELSE IF ~ParsePrefixOK(r) THEN InvalidInput
       ELSE evaluateCIDR(ParsePrefix(r))

\* one input handed to evaluateInput against the store
EvalInput(r) ==
    /\ pc = "ready"
    /\ evaluateInput(r)
    /\ UNCHANGED <<fetchVars, otherVars>>

\* one iteration of evaluateCIDR's for loop; the iteration that reaches
\* lastAddr breaks and prints the summary
evaluateCIDRLoop ==
    /\ LET ls == Lookup(meta, addr)
           owned == Len(ls) # 0
           oc == IF owned THEN ownedCount + 1 ELSE ownedCount
           nc == IF owned THEN nonOwnedCount ELSE nonOwnedCount + 1
           sets == IF owned THEN Bump(labelSets, Signature(ls)) ELSE labelSets
       IN /\ lookedAddr' = addr
          /\ labels' = ls
          /\ lookupCalls' = lookupCalls + 1
          /\ ownedCount' = oc
          /\ nonOwnedCount' = nc
          /\ labelSets' = sets
          /\ groups' = IF owned THEN groups \cup {<<Signature(ls), Range(ls)>>}
                       ELSE groups
          /\ IF addr = lastAddr
             THEN /\ pc' = "ready"
                  /\ addr' = addr
                  /\ report' = Report("range", <<>>, U64(0), oc + nc, oc, nc,
                                      Distribution(sets))
             ELSE /\ pc' = "loop"
                  /\ addr' = AddrNext(addr)
                  /\ report' = report
    /\ UNCHANGED <<meta, raw, prefix, lastAddr>>

\* the range evaluation in progress takes its next iteration
LoopIter ==
    /\ pc = "loop"
    /\ evaluateCIDRLoop
    /\ UNCHANGED <<fetchVars, otherVars>>

\* lastAddrInPrefix applied to a prefix drawn in LastInit
ComputeLast ==
    /\ pc = "last"
    /\ pc' = "lastdone"
    /\ lastAddr' = lastAddrInPrefix(prefix)
    /\ UNCHANGED <<meta, raw, prefix, addr, ownedCount, nonOwnedCount, labelSets,
                   lookedAddr, labels, lookupCalls, groups, report>>
    /\ UNCHANGED <<fetchVars, otherVars>>

\* the payload a fetch parses: the body of a 200 response, else the cache file
PayloadParsed(c, e) ==
    IF e.net = "response" /\ e.status = 200 THEN e.body ELSE c.meta.data

\* where the context of a fetch that met e can have ended: a deadline or a
\* cancellation before the response makes client.Do fail, one while the body
\* of a 200 response is read makes io.ReadAll fail
CancelPoints(e) ==
    {"none"} \cup (IF e.net = "error" THEN {"before"} ELSE {})
             \cup (IF e.net = "response" /\ e.status = 200 /\ ~e.readOK
                   THEN {"body"} ELSE {})

\* one call of fetch against the cache location
fetchCall(e) ==
    /\ fetchN < MaxFetches
    /\ cancelled' \in CancelPoints(e)
    /\ \E ord \in Orders(Len(PayloadParsed(cache, e).obj)) :
       \E o \in {fetch(cache, e, ord)} :
          LET wrote == /\ e.net = "response" /\ e.status = 200 /\ e.readOK
                       /\ o.err = ""
                       /\ cache.on /\ e.fs.mkdir /\ e.fs.writeMeta
          IN /\ cache' = o.cache
             /\ before' = cache
             /\ env' = e
             /\ out' = [err |-> o.err, meta |-> o.meta, requests |-> o.requests,
                        ifNoneMatch |-> o.ifNoneMatch, loadTried |-> o.loadTried]
             /\ fetchN' = fetchN + 1
             /\ persisted' = IF wrote THEN [some |-> TRUE, body |-> e.body] ELSE persisted
             /\ writer' = IF wrote THEN [known |-> TRUE, meta |-> o.meta] ELSE writer
             /\ tokenLog' =
                   [supplied |-> IF e.net = "response" /\ e.status = 200 /\ e.etag # <<>>
                                 THEN e.etag ELSE tokenLog.supplied,
                    written |-> IF wrote /\ e.etag # <<>> /\ e.fs.writeEtag
                                THEN e.etag ELSE tokenLog.written,
                    suppliedBefore |-> tokenLog.supplied,
                    writtenBefore |-> tokenLog.written]

\* a fetch made on its own
Fetch(e) ==
    /\ pc = "fetch"
    /\ fetchCall(e)
    /\ origin' = origin
    /\ UNCHANGED <<evalVars, otherVars>>

\* ------------------------------------------------------------------ main
\* a command-line argument or a line of standard input: a text handed to
\* evaluateInput, a line that is blank once trimmed, or the word exit/quit
Line(kind, r) == [kind |-> kind, raw |-> r]

\* the first result of each address looked up, with this call noted
Remember(mm, a, ls) == IF a \in DOMAIN mm THEN mm ELSE (a :> ls) @@ mm

\* main going on to the inputs whatever Fetch returned
MainFetch_IgnoreError(e) ==
    /\ pc = "start"
    /\ fetchCall(e)
    /\ pc' = "ready"
    /\ exitCode' = exitCode
    /\ meta' = out'.meta
    /\ acquired' = [cache |-> cache', fetchN |-> fetchN']
    /\ origin' = origin
    /\ UNCHANGED <<raw, prefix, addr, lastAddr, ownedCount, nonOwnedCount,
                   labelSets, lookedAddr, labels, lookupCalls, groups, report>>
    /\ UNCHANGED <<interactive, argv, argi, printed, memo>>
    /\ UNCHANGED <<callers, apiVars, parseVars>>

\* main up to the mode switch: the one Fetch; on an error the process exits 1
MainFetch(e) ==
    /\ pc = "start"
    /\ fetchCall(e)
    /\ IF out'.err # ""
       THEN /\ pc' = "exit"
            /\ exitCode' = 1
            /\ meta' = meta
       ELSE /\ pc' = "ready"
            /\ exitCode' = exitCode
            /\ meta' = out'.meta
    /\ acquired' = [cache |-> cache', fetchN |-> fetchN']
    /\ origin' = origin
    /\ UNCHANGED <<raw, prefix, addr, lastAddr, ownedCount, nonOwnedCount,
                   labelSets, lookedAddr, labels, lookupCalls, groups, report>>
    /\ UNCHANGED <<interactive, argv, argi, printed, memo>>
    /\ UNCHANGED <<callers, apiVars, parseVars>>

\* the next argument, or the next line of the interactive loop: a blank line
\* is skipped, exit/quit leaves the loop, anything else is evaluated
MainInput ==
    /\ pc = "ready"
    /\ argi <= Len(argv)
    /\ argi' = argi + 1
    /\ LET l == argv[argi]
       IN IF interactive /\ l.kind = "blank"
          THEN UNCHANGED <<evalVars, printed, exitCode, memo>>
          ELSE IF interactive /\ l.kind = "exit"
          THEN /\ pc' = "exit"
               /\ exitCode' = 0
               /\ UNCHANGED <<meta, raw, prefix, addr, lastAddr, ownedCount,
                              nonOwnedCount, labelSets, lookedAddr, labels,
                              lookupCalls, groups, report, printed, memo>>
          ELSE /\ evaluateInput(l.raw)
               /\ printed' = IF pc' = "ready" THEN Append(printed, report') ELSE printed
               /\ memo' = IF lookupCalls' > 0 THEN Remember(memo, lookedAddr', labels')
                          ELSE memo
               /\ exitCode' = exitCode
    /\ UNCHANGED <<interactive, argv, acquired>>
    /\ UNCHANGED <<fetchVars, callers, apiVars, parseVars>>

\* the next iteration of the range evaluation main is in
MainLoop ==
    /\ pc = "loop"
    /\ evaluateCIDRLoop
    /\ printed' = IF pc' = "ready" THEN Append(printed, report') ELSE printed
    /\ memo' = Remember(memo, lookedAddr', labels')
    /\ UNCHANGED <<interactive, argv, argi, exitCode, acquired>>
    /\ UNCHANGED <<fetchVars, callers, apiVars, parseVars>>

\* the arguments are used up, or standard input has ended: main returns
MainReturn ==
    /\ pc = "ready"
    /\ argi > Len(argv)
    /\ pc' = "exit"
    /\ exitCode' = 0
    /\ UNCHANGED <<meta, raw, prefix, addr, lastAddr, ownedCount, nonOwnedCount,
                   labelSets, lookedAddr, labels, lookupCalls, groups, report>>
    /\ UNCHANGED <<interactive, argv, argi, printed, memo, acquired>>
    /\ UNCHANGED <<callers, apiVars, parseVars>>
    /\ UNCHANGED fetchVars

\* ---------------------------------------------------- concurrent callers
\* the local variables of one caller: its position, its input, the loop's
\* addr and lastAddr, the counters, the label list Lookup handed to it, its
\* report once it is done, and the store as it was when the call began
Caller(at, r, a, last, oc, nc, sets, ls, rp, st) ==
    [pc |-> at, raw |-> r, addr |-> a, lastAddr |-> last, ownedCount |-> oc,
     nonOwnedCount |-> nc, labelSets |-> sets, labels |-> ls, report |-> rp,
     store |-> st]

\* a caller about to make its first Lookup: of the address, or of the first
\* address of the range (evaluateCIDR below the size check)
CallerAt(r, st) ==
    IF ParseAddrOK(r)
    THEN Caller("lookup", r, r.addr, r.addr, 0, 0, <<>>, <<>>, NoReport, st)
    ELSE Caller("lookup", r, ParsePrefix(r).addr, lastAddrInPrefix(ParsePrefix(r)),
                0, 0, <<>>, <<>>, NoReport, st)

\* Lookup writing its result to a buffer that all callers of the store share
CallerLookup_SharedBuffer(c) ==
    /\ callers[c].pc = "lookup"
    /\ LET ls == Lookup(meta, callers[c].addr)
           single == ParseAddrOK(callers[c].raw)
       IN callers' = [k \in DOMAIN callers |->
                        IF k = c
                        THEN [callers[k] EXCEPT
                                 !.labels = ls,
                                 !.pc = IF single THEN "done" ELSE "aggregate",
                                 !.report = IF single
                                            THEN Report("addr", ls, U64(0), 0, 0, 0, <<>>)
                                            ELSE @]
                        ELSE [callers[k] EXCEPT !.labels = ls]]
    /\ UNCHANGED <<evalVars, fetchVars, mainVars, apiVars, parseVars>>

\* caller c's meta.Lookup(addr): reads the store, returns a list of its own
CallerLookup(c) ==
    /\ callers[c].pc = "lookup"
    /\ LET ls == Lookup(meta, callers[c].addr)
           single == ParseAddrOK(callers[c].raw)
       IN callers' = [callers EXCEPT
                         ![c].labels = ls,
                         ![c].pc = IF single THEN "done" ELSE "aggregate",
                         ![c].report = IF single
                                       THEN Report("addr", ls, U64(0), 0, 0, 0, <<>>)
                                       ELSE @]
    /\ UNCHANGED <<evalVars, fetchVars, mainVars, apiVars, parseVars>>

\* the rest of caller c's loop iteration: the counters, the sort of its label
\* list, the signature count, then the break with the summary or addr.Next
CallerAggregate(c) ==
    /\ callers[c].pc = "aggregate"
    /\ LET me == callers[c]
           ls == SortStrings(me.labels)
           owned == Len(me.labels) # 0
           oc == IF owned THEN me.ownedCount + 1 ELSE me.ownedCount
           nc == IF owned THEN me.nonOwnedCount ELSE me.nonOwnedCount + 1
           sets == IF owned THEN Bump(me.labelSets, Join(ls, <<44>>)) ELSE me.labelSets
       IN callers' = [callers EXCEPT
                         ![c].labels = IF owned THEN ls ELSE @,
                         ![c].ownedCount = oc,
                         ![c].nonOwnedCount = nc,
                         ![c].labelSets = sets,
                         ![c].pc = IF me.addr = me.lastAddr THEN "done" ELSE "lookup",
                         ![c].addr = IF me.addr = me.lastAddr THEN @ ELSE AddrNext(@),
                         ![c].report = IF me.addr = me.lastAddr
                                       THEN Report("range", <<>>, U64(0), oc + nc, oc, nc,
                                                   Distribution(sets))
                                       ELSE @]
    /\ UNCHANGED <<evalVars, fetchVars, mainVars, apiVars, parseVars>>

\* ------------------------------------------------- the store from outside
\* newMetaData keeping the caller's slice instead of a copy of it
newMetaDataAt_Alias(h, id) == [heap |-> h, ref |-> id]

\* newMetaData on the slice backed by array id: make a new array, copy the
\* entries into it, point m.entries to it
newMetaDataAt(h, id) == [heap |-> Append(h, h[id]), ref |-> Len(h) + 1]

\* the *MetaData outside code calls into, as a value
StoreValue == IF storeRef <= 0 THEN NilMeta ELSE newMetaData(heap[storeRef])

ApiCall(op, a, es, ls) ==
    [op |-> op, addr |-> a, entries |-> es, labels |-> ls, writesBefore |-> apiWrites]

\* NewMetaDataForTesting(entries) with the slice backed by array 1
ApiConstruct ==
    /\ storeRef = -1
    /\ \E o \in {newMetaDataAt(heap, 1)} :
          /\ heap' = o.heap
          /\ storeRef' = o.ref
    /\ apiOut' = ApiCall("new", ZeroAddr, <<>>, <<>>)
    /\ UNCHANGED <<held, orig, apiWrites>>
    /\ UNCHANGED <<evalVars, fetchVars, mainVars, callers, parseVars>>

\* m.Entries(): nil for a nil store, else a new array holding a copy
ApiEntries ==
    /\ storeRef >= 0
    /\ Len(heap) < MaxArrays
    /\ IF storeRef = 0
       THEN /\ apiOut' = ApiCall("Entries", ZeroAddr, <<>>, <<>>)
            /\ UNCHANGED <<heap, held>>
       ELSE /\ heap' = Append(heap, heap[storeRef])
            /\ held' = held \cup {Len(heap) + 1}
            /\ apiOut' = ApiCall("Entries", ZeroAddr, heap[storeRef], <<>>)
    /\ UNCHANGED <<storeRef, orig, apiWrites>>
    /\ UNCHANGED <<evalVars, fetchVars, mainVars, callers, parseVars>>

\* m.Lookup(a), a possibly the zero Addr
ApiLookup(a) ==
    /\ storeRef >= 0
    /\ apiOut' = ApiCall("Lookup", a, <<>>, Lookup(StoreValue, a))
    /\ UNCHANGED <<heap, storeRef, held, orig, apiWrites>>
    /\ UNCHANGED <<evalVars, fetchVars, mainVars, callers, parseVars>>

\* outside code assigns e to element i of a slice it holds
ApiWrite(id, i, e) ==
    /\ storeRef >= 0
    /\ apiWrites < MaxWrites
    /\ id \in held
    /\ i \in DOMAIN heap[id]
    /\ heap[id][i] # e
    /\ heap' = [heap EXCEPT ![id][i] = e]
    /\ apiWrites' = apiWrites + 1
    /\ UNCHANGED <<storeRef, held, orig, apiOut>>
    /\ UNCHANGED <<evalVars, fetchVars, mainVars, callers, parseVars>>

\* ------------------------------------------------------- parsing a payload
\* one call of parseMetaJSON on the payload drawn in ParseInit
ParseCall ==
    /\ ~parsed.done
    /\ \E ord \in Orders(Len(reader.obj)) :
          /\ keyOrder' = ord
          /\ \E o \in {parseMetaJSON(reader, ord)} :
                parsed' = [done |-> TRUE, err |-> o.err, entries |-> o.entries]
    /\ reader' = reader
    /\ UNCHANGED <<evalVars, fetchVars, mainVars, callers, apiVars>>

\* ---------------------------------------------------------------- inputs
V4(a, b, c, d) == <<a, b, c, d>>
\* a 16-byte address from its eight 16-bit groups
V6(g) == [k \in 1..16 |-> IF k % 2 = 1 THEN g[(k + 1) \div 2] \div 256
                          ELSE g[k \div 2] % 256]

LblApi == <<97, 112, 105>>
LblHooks == <<104, 111, 111, 107, 115>>
LblApiHooks == LblApi \o <<44>> \o LblHooks
LblWeb == <<119, 101, 98>>
LblPages == <<112, 97, 103, 101, 115>>

Db8 == V6(<<8193, 3512, 0, 0, 0, 0, 0, 0>>)
Db8One == V6(<<8193, 3512, 1, 0, 0, 0, 0, 0>>)

\* the entries the stores of Spec are built from
EntryPool ==
    { Entry(LblHooks, V4(10, 0, 0, 0), 30),
      Entry(LblApi, V4(10, 0, 0, 0), 31),
      Entry(LblHooks, V4(10, 0, 0, 1), 31),
      Entry(LblApiHooks, V4(10, 0, 0, 4), 32),
      Entry(LblHooks, Db8, 126) }

\* every list of at most MaxEntries different entries, in every order
EntryLists ==
    UNION { { s \in [1..n -> EntryPool] : \A i, j \in 1..n : i # j => s[i] # s[j] }
            : n \in 0..MaxEntries }

Stores == {NilMeta} \cup { newMetaData(s) : s \in EntryLists }

Inputs ==
    { Raw(V4(10, 0, 0, 1), FALSE, 0),
      Raw(V4(10, 0, 0, 4), FALSE, 0),
      Raw(V4(8, 8, 8, 8), FALSE, 0),
      Raw(V6(<<8193, 3512, 0, 0, 0, 0, 0, 2>>), FALSE, 0),
      Raw(V4(10, 0, 0, 0), TRUE, 29),
      Raw(V4(10, 0, 0, 0), TRUE, 30),
      Raw(V4(10, 0, 0, 1), TRUE, 31),
      Raw(V4(10, 0, 0, 3), TRUE, 32),
      Raw(V4(255, 255, 255, 254), TRUE, 31),
      Raw(Db8, TRUE, 126),
      Raw(V4(10, 0, 0, 0), TRUE, 16),
      Raw(Db8, TRUE, 64),
      Raw(V4(10, 0, 0, 0), TRUE, 33),
      Raw(ZeroAddr, FALSE, 0),
      Raw(ZeroAddr, TRUE, 8) }

\* the store of createTestMeta
TestMeta ==
    newMetaData(<< Entry(LblHooks, V4(192, 30, 252, 0), 22),
                   Entry(LblHooks, Db8One, 48),
                   Entry(LblWeb, V4(140, 82, 112, 0), 20),
                   Entry(LblApi, V4(192, 30, 252, 0), 24),
                   Entry(LblPages, V4(185, 199, 108, 0), 22) >>)

\* every prefix length of both families, on a first address and on a later one
SweepInputs ==
    { Raw(V4(192, 30, 240, 0), TRUE, p) : p \in 0..33 }
    \cup { Raw(Db8One, TRUE, p) : p \in 0..129 }
    \cup { Raw(V4(192, 30, 252, 5), TRUE, p) : p \in {8, 19, 20, 30} }
    \cup { Raw(V4(192, 30, 252, 42), FALSE, 0), Raw(ZeroAddr, FALSE, 0) }

LastAddrs ==
    { V4(192, 168, 1, 0), V4(192, 168, 1, 4), V4(10, 77, 129, 37),
      Db8, V6(<<8193, 3512, 1, 0, 4660, 0, 43981, 291>>) }
LastInputs == { [addr |-> a, bits |-> p] : a \in LastAddrs, p \in 0..128 }

\* ------------------------------------------------- payloads and responses
LblFlag == <<102, 108, 97, 103>>
LblKeys == <<107, 101, 121, 115>>
Junk == Raw(ZeroAddr, FALSE, 0)

\* two labels, a list with an unparsable string, a value that is no list; the
\* two hooks blocks are written in the reverse of their text order
PayloadA ==
    Object(<< Member(LblHooks, List(<< Str(Raw(V4(10, 0, 0, 2), TRUE, 31)),
                                       Str(Raw(V4(10, 0, 0, 10), TRUE, 32)),
                                       Str(Junk) >>)),
              Member(LblApi, List(<< Str(Raw(V4(10, 0, 0, 0), TRUE, 31)) >>)),
              Member(LblFlag, NotList) >>)
\* another payload: one label, and a list holding something that is no string
PayloadB ==
    Object(<< Member(LblWeb, List(<< Str(Raw(Db8One, TRUE, 48)),
                                     Str(Raw(V4(140, 82, 112, 0), TRUE, 20)) >>)),
              Member(LblKeys, List(<< Str(Raw(V4(10, 0, 0, 0), TRUE, 8)), NotStr >>)) >>)
\* a decodable payload without a usable entry
PayloadEmpty ==
    Object(<< Member(LblKeys, List(<< Str(Junk), Str(Raw(V4(10, 0, 0, 0), FALSE, 0)) >>)),
              Member(LblFlag, NotList) >>)

Bodies == {PayloadA, PayloadB, PayloadEmpty, Undecodable}

TokenV1 == <<34, 118, 49, 34>>
TokenV2 == <<34, 118, 50, 34>>
Tokens == {<<>>, TokenV1, TokenV2}

FsOK == Fs(TRUE, TRUE, TRUE)
FsOutcomes == {FsOK, Fs(FALSE, TRUE, TRUE), Fs(TRUE, FALSE, TRUE), Fs(TRUE, TRUE, FALSE)}

Envs ==
    { Env("error", 0, <<>>, Undecodable, TRUE, FsOK),
      Env("response", 304, <<>>, Undecodable, TRUE, FsOK),
      Env("response", 500, <<>>, Undecodable, TRUE, FsOK) }
    \cup { Env("response", 200, t, PayloadA, FALSE, FsOK) : t \in Tokens }
    \cup { Env("response", 200, t, b, TRUE, fs) : t \in Tokens, b \in Bodies, fs \in FsOutcomes }

\* the cache locations a run can find: caching off, or any of the two files
\* absent or left by an earlier run
Caches ==
    { [on |-> FALSE, meta |-> NoMetaFile, etag |-> NoEtagFile] }
    \cup { [on |-> TRUE, meta |-> m, etag |-> t] :
             m \in {NoMetaFile, File(PayloadA), File(Undecodable)},
             t \in {NoEtagFile, File(<<32>> \o TokenV1 \o <<10>>)} }

\* the origin is not modelled: the responses are drawn freely
NoOrigin == [body |-> Undecodable, etag |-> <<>>]
NoTokens == [supplied |-> <<>>, written |-> <<>>, suppliedBefore |-> <<>>,
             writtenBefore |-> <<>>]
NoEnv == Env("none", 0, <<>>, Undecodable, TRUE, FsOK)
NoOut == [err |-> "", meta |-> NilMeta, requests |-> 0, ifNoneMatch |-> <<>>,
          loadTried |-> FALSE]
NoCache == [on |-> FALSE, meta |-> NoMetaFile, etag |-> NoEtagFile]

\* ---------------------------------------------------------- specifications
EvalInit(stores) ==
    /\ meta \in stores
    /\ pc = "ready"
    /\ raw = NoRaw
    /\ prefix = NoPrefix
    /\ addr = ZeroAddr
    /\ lastAddr = ZeroAddr
    /\ ownedCount = 0
    /\ nonOwnedCount = 0
    /\ labelSets = <<>>
    /\ lookedAddr = ZeroAddr
    /\ labels = <<>>
    /\ lookupCalls = 0
    /\ groups = {}
    /\ report = NoReport

\* no process is running main
MainIdle ==
    /\ interactive = FALSE
    /\ argv = <<>>
    /\ argi = 1
    /\ printed = <<>>
    /\ exitCode = -1
    /\ memo = <<>>
    /\ acquired = [cache |-> NoCache, fetchN |-> 0]

\* no store is used from outside
ApiIdle ==
    /\ heap = <<>>
    /\ storeRef = -1
    /\ held = {}
    /\ orig = <<>>
    /\ apiOut = [op |-> "none", addr |-> ZeroAddr, entries |-> <<>>, labels |-> <<>>,
                 writesBefore |-> 0]
    /\ apiWrites = 0

\* parseMetaJSON is not being called on its own
ParseIdle ==
    /\ reader = Undecodable
    /\ keyOrder = <<>>
    /\ parsed = [done |-> FALSE, err |-> "", entries |-> <<>>]

\* the state outside evaluation and fetching, untouched
OtherIdle == MainIdle /\ callers = <<>> /\ ApiIdle /\ ParseIdle

\* no fetch is running or has run
FetchIdle ==
    /\ cache = NoCache
    /\ fetchN = 0
    /\ env = NoEnv
    /\ before = NoCache
    /\ out = NoOut
    /\ persisted = [some |-> FALSE, body |-> Undecodable]
    /\ writer = [known |-> FALSE, meta |-> NilMeta]
    /\ cancelled = "none"
    /\ tokenLog = NoTokens
    /\ origin = NoOrigin

\* inputs evaluated one after another against one store
Init == EvalInit(Stores) /\ FetchIdle /\ OtherIdle
Next == (\E r \in Inputs : EvalInput(r)) \/ LoopIter
Spec == Init /\ [][Next]_vars

\* every prefix length, against the test store
SweepInit == EvalInit({TestMeta}) /\ FetchIdle /\ OtherIdle
SweepNext == (\E r \in SweepInputs : EvalInput(r)) \/ LoopIter
SweepSpec == SweepInit /\ [][SweepNext]_vars

\* lastAddrInPrefix on its own
LastInit ==
    /\ prefix \in { p \in LastInputs : p.bits <= BitLen(p.addr) }
    /\ pc = "last"
    /\ meta = NilMeta
    /\ raw = NoRaw
    /\ addr = ZeroAddr
    /\ lastAddr = ZeroAddr
    /\ ownedCount = 0
    /\ nonOwnedCount = 0
    /\ labelSets = <<>>
    /\ lookedAddr = ZeroAddr
    /\ labels = <<>>
    /\ lookupCalls = 0
    /\ groups = {}
    /\ report = NoReport
    /\ FetchIdle
    /\ OtherIdle
LastSpec == LastInit /\ [][ComputeLast]_vars

\* fetches made one after another against one cache location
FetchInit ==
    /\ cache \in Caches
    /\ fetchN = 0
    /\ env = NoEnv
    /\ before = NoCache
    /\ out = NoOut
    /\ persisted = [some |-> FALSE, body |-> Undecodable]
    /\ writer = [known |-> FALSE, meta |-> NilMeta]
    /\ cancelled = "none"
    /\ tokenLog = NoTokens
    /\ origin = NoOrigin
    /\ pc = "fetch"
    /\ meta = NilMeta
    /\ raw = NoRaw
    /\ prefix = NoPrefix
    /\ addr = ZeroAddr
    /\ lastAddr = ZeroAddr
    /\ ownedCount = 0
    /\ nonOwnedCount = 0
    /\ labelSets = <<>>
    /\ lookedAddr = ZeroAddr
    /\ labels = <<>>
    /\ lookupCalls = 0
    /\ groups = {}
    /\ report = NoReport
    /\ OtherIdle
FetchNext == \E e \in Envs : Fetch(e)
FetchSpec == FetchInit /\ [][FetchNext]_vars

\* one run of main: the fetch, then the arguments or the interactive lines
MainTexts ==
    { Raw(V4(10, 0, 0, 1), FALSE, 0),
      Raw(V4(8, 8, 8, 8), FALSE, 0),
      Raw(V4(10, 0, 0, 0), TRUE, 30),
      Raw(V4(10, 0, 0, 1), TRUE, 31),
      Raw(V4(10, 0, 0, 0), TRUE, 16),
      Junk }
MainLines ==
    { Line("text", r) : r \in MainTexts } \cup { Line("blank", Junk), Line("exit", Junk) }
MainArgLists == UNION { [1..n -> MainLines] : n \in 0..MaxArgs }
MainEnvs ==
    { Env("error", 0, <<>>, Undecodable, TRUE, FsOK),
      Env("response", 304, <<>>, Undecodable, TRUE, FsOK),
      Env("response", 200, TokenV1, PayloadA, TRUE, FsOK),
      Env("response", 200, TokenV2, PayloadB, TRUE, FsOK),
      Env("response", 200, <<>>, PayloadEmpty, TRUE, FsOK),
      Env("response", 200, TokenV1, PayloadA, FALSE, FsOK) }
MainCaches ==
    { NoCache,
      [on |-> TRUE, meta |-> NoMetaFile, etag |-> NoEtagFile],
      [on |-> TRUE, meta |-> File(PayloadA), etag |-> File(TokenV1 \o <<10>>)] }

MainInit ==
    /\ cache \in MainCaches
    /\ fetchN = 0
    /\ env = NoEnv
    /\ before = NoCache
    /\ out = NoOut
    /\ persisted = [some |-> FALSE, body |-> Undecodable]
    /\ writer = [known |-> FALSE, meta |-> NilMeta]
    /\ cancelled = "none"
    /\ tokenLog = NoTokens
    /\ origin = NoOrigin
    /\ pc = "start"
    /\ meta = NilMeta
    /\ raw = NoRaw
    /\ prefix = NoPrefix
    /\ addr = ZeroAddr
    /\ lastAddr = ZeroAddr
    /\ ownedCount = 0
    /\ nonOwnedCount = 0
    /\ labelSets = <<>>
    /\ lookedAddr = ZeroAddr
    /\ labels = <<>>
    /\ lookupCalls = 0
    /\ groups = {}
    /\ report = NoReport
    /\ argv \in MainArgLists
    /\ interactive \in (IF argv = <<>> THEN {TRUE} ELSE BOOLEAN)
    /\ argi = 1
    /\ printed = <<>>
    /\ exitCode = -1
    /\ memo = <<>>
    /\ acquired = [cache |-> NoCache, fetchN |-> 0]
    /\ callers = <<>>
    /\ ApiIdle
    /\ ParseIdle
MainNext == (\E e \in MainEnvs : MainFetch(e)) \/ MainInput \/ MainLoop \/ MainReturn
MainSpec == MainInit /\ [][MainNext]_vars

\* NCallers goroutines, each with a Lookup or a range evaluation of its own,
\* interleaved step by step against one store
ConcStores ==
    { newMetaData(<< Entry(LblHooks, V4(10, 0, 0, 0), 30),
                     Entry(LblApi, V4(10, 0, 0, 0), 31),
                     Entry(LblApiHooks, V4(10, 0, 0, 4), 32) >>),
      newMetaData(<<>>) }
ConcInputs ==
    { Raw(V4(10, 0, 0, 1), FALSE, 0),
      Raw(V4(10, 0, 0, 4), FALSE, 0),
      Raw(V4(10, 0, 0, 0), TRUE, 30),
      Raw(V4(10, 0, 0, 2), TRUE, 29) }
ConcInit ==
    /\ EvalInit(ConcStores)
    /\ FetchIdle
    /\ MainIdle
    /\ callers \in [1..NCallers -> { CallerAt(r, meta) : r \in ConcInputs }]
    /\ ApiIdle
    /\ ParseIdle
ConcNext == \E c \in 1..NCallers : CallerLookup(c) \/ CallerAggregate(c)
ConcSpec == ConcInit /\ [][ConcNext]_vars

\* a store built from a slice the caller keeps (or a nil *MetaData), then
\* calls of Entries and Lookup mixed with writes to the slices held outside
ApiEntryPool ==
    { Entry(LblHooks, V4(10, 0, 0, 0), 30),
      Entry(LblApi, V4(10, 0, 0, 0), 31),
      Entry(LblWeb, V4(10, 0, 0, 1), 32) }
ApiArgs ==
    UNION { { s \in [1..n -> ApiEntryPool] : \A i, j \in 1..n : i # j => s[i] # s[j] }
            : n \in 0..2 }
ApiAddrs == { V4(10, 0, 0, 1), V4(10, 0, 0, 2), V4(8, 8, 8, 8), Db8, ZeroAddr }
ApiInit ==
    /\ EvalInit({NilMeta})
    /\ FetchIdle
    /\ MainIdle
    /\ callers = <<>>
    /\ apiOut = [op |-> "none", addr |-> ZeroAddr, entries |-> <<>>, labels |-> <<>>,
                 writesBefore |-> 0]
    /\ apiWrites = 0
    /\ ParseIdle
    /\ \/ /\ storeRef = -1
          /\ orig \in ApiArgs
          /\ heap = <<orig>>
          /\ held = {1}
       \/ /\ storeRef = 0
          /\ orig = <<>>
          /\ heap = <<>>
          /\ held = {}
ApiNext ==
    \/ ApiConstruct
    \/ ApiEntries
    \/ \E a \in ApiAddrs : ApiLookup(a)
    \/ \E id \in 1..MaxArrays, i \in 1..2, e \in ApiEntryPool : ApiWrite(id, i, e)
ApiSpec == ApiInit /\ [][ApiNext]_vars

\* parseMetaJSON on every payload of at most MaxKeys keys
CidrA == Raw(V4(192, 30, 252, 0), TRUE, 22)
CidrB == Raw(Db8One, TRUE, 48)
ParseValues ==
    { NotList,
      List(<<>>),
      List(<< Str(CidrA) >>),
      List(<< Str(CidrA), Str(Junk), Str(CidrB) >>),
      List(<< Str(CidrA), NotStr >>),
      List(<< Str(CidrB), Str(CidrB) >>),
      List(<< Str(Junk) >>) }
ParseKeys == {LblHooks, LblApi, LblFlag}
ParsePayloads ==
    {Undecodable}
    \cup UNION { { Object([i \in 1..n |-> Member(ks[i], vs[i])]) :
                     ks \in { f \in [1..n -> ParseKeys] :
                                \A i, j \in 1..n : i # j => f[i] # f[j] },
                     vs \in [1..n -> ParseValues] }
                 : n \in 0..MaxKeys }
ParseInit ==
    /\ EvalInit({NilMeta})
    /\ FetchIdle
    /\ MainIdle
    /\ callers = <<>>
    /\ ApiIdle
    /\ reader \in ParsePayloads
    /\ keyOrder = <<>>
    /\ parsed = [done |-> FALSE, err |-> "", entries |-> <<>>]
ParseSpec == ParseInit /\ [][ParseCall]_vars

\* single addresses and their full-length prefixes, against every store
AllOnes4 == V4(255, 255, 255, 255)
AllOnes6 == V6(<<65535, 65535, 65535, 65535, 65535, 65535, 65535, 65535>>)
HostAddrs ==
    { V4(10, 0, 0, 0), V4(10, 0, 0, 1), V4(10, 0, 0, 4), V4(8, 8, 8, 8), AllOnes4,
      Db8, V6(<<8193, 3512, 0, 0, 0, 0, 0, 2>>), Db8One, AllOnes6 }
HostInputs ==
    { Raw(a, FALSE, 0) : a \in HostAddrs } \cup { Raw(a, TRUE, BitLen(a)) : a \in HostAddrs }
HostInit == EvalInit(Stores) /\ FetchIdle /\ OtherIdle
HostNext == (\E r \in HostInputs : EvalInput(r)) \/ LoopIter
HostSpec == HostInit /\ [][HostNext]_vars

\* ranges that end at the highest address of their family, of one address up
\* to defaultThreshold addresses, from a first address and from a later one,
\* beside a range inside the family and one that is too large
TopBlock4 == V4(255, 255, 240, 0)
TopBlock6 == V6(<<65535, 65535, 65535, 65535, 65535, 65535, 65535, 61440>>)
EdgeMeta ==
    newMetaData(<< Entry(LblHooks, V4(255, 255, 255, 0), 24),
                   Entry(LblApi, AllOnes4, 32),
                   Entry(LblWeb, TopBlock6, 120) >>)
EdgeInputs ==
    { Raw(AllOnes4, TRUE, 32),
      Raw(AllOnes6, TRUE, 128),
      Raw(AllOnes4, FALSE, 0),
      Raw(TopBlock4, TRUE, 20),
      Raw(TopBlock6, TRUE, 116),
      Raw(V4(255, 255, 255, 250), TRUE, 29),
      Raw(V6(<<65535, 65535, 65535, 65535, 65535, 65535, 65535, 65534>>), TRUE, 127),
      Raw(V4(10, 0, 15, 250), TRUE, 20),
      Raw(V4(192, 30, 240, 0), TRUE, 20),
      Raw(V4(255, 255, 224, 0), TRUE, 19) }
EdgeInit == EvalInit({TestMeta, EdgeMeta}) /\ FetchIdle /\ OtherIdle
EdgeNext == (\E r \in EdgeInputs : EvalInput(r)) \/ LoopIter
EdgeSpec == EdgeInit /\ [][EdgeNext]_vars

\* fetches against an origin that holds one payload at a time, each payload
\* identified by its token: it answers 304 only to the token of the payload
\* it holds, and otherwise 200 with that payload, with or without the token
Origins ==
    { [body |-> PayloadA, etag |-> TokenV1], [body |-> PayloadB, etag |-> TokenV2] }
OriginAnswers(o, sent) ==
    (IF sent = o.etag
     THEN {Env("response", 304, <<>>, Undecodable, TRUE, FsOK)} ELSE {})
    \cup { Env("response", 200, t, o.body, TRUE, FsOK) : t \in {o.etag, <<>>} }
\* caching is off, the cache location is empty, or an earlier run left there
\* a payload of this origin with its token
OriginCaches ==
    { [on |-> b, meta |-> NoMetaFile, etag |-> NoEtagFile] : b \in BOOLEAN }
    \cup { [on |-> TRUE, meta |-> File(o.body), etag |-> File(o.etag \o <<10>>)] :
              o \in Origins }
OriginInit ==
    /\ cache \in OriginCaches
    /\ origin = NoOrigin
    /\ fetchN = 0
    /\ env = NoEnv
    /\ before = NoCache
    /\ out = NoOut
    /\ persisted = [some |-> FALSE, body |-> Undecodable]
    /\ writer = [known |-> FALSE, meta |-> NilMeta]
    /\ cancelled = "none"
    /\ tokenLog = NoTokens
    /\ pc = "fetch"
    /\ meta = NilMeta
    /\ raw = NoRaw
    /\ prefix = NoPrefix
    /\ addr = ZeroAddr
    /\ lastAddr = ZeroAddr
    /\ ownedCount = 0
    /\ nonOwnedCount = 0
    /\ labelSets = <<>>
    /\ lookedAddr = ZeroAddr
    /\ labels = <<>>
    /\ lookupCalls = 0
    /\ groups = {}
    /\ report = NoReport
    /\ OtherIdle
\* a fetch answered by the origin, which holds payload o when the request
\* arrives: the one it held at the fetch before, or another one
OriginFetch(o) ==
    /\ pc = "fetch"
    /\ origin' = o
    /\ \E e \in OriginAnswers(o, readETag(cache)) : fetchCall(e)
    /\ UNCHANGED <<evalVars, otherVars>>
OriginNext == \E o \in Origins : OriginFetch(o)
OriginSpec == OriginInit /\ [][OriginNext]_vars

\* ------------------------------------------------------------------ claims
\* the labels under which at least one entry of m has a block containing a
MatchingLabels(m, a) ==
    IF m.nil THEN {}
    ELSE { m.entries[i].Label :
             i \in { j \in DOMAIN m.entries : Contains(m.entries[j].Prefix, a) } }

\* strictly ascending in byte-wise order, hence without a repeated element
IsAscending(ls) == \A i \in 1..(Len(ls) - 1) : StrLess(ls[i], ls[i + 1])

\* the input being evaluated is a CIDR range, parsed into prefix
EvaluatingRange == ~ParseAddrOK(raw) /\ ParsePrefixOK(raw) /\ prefix = ParsePrefix(raw)

\* 2^h > defaultThreshold, for the true number 2^h (2^31 and more is over)
CountOver(h) == IF h <= 30 THEN 2 ^ h > defaultThreshold ELSE TRUE

\* 2^h as nine 16-bit limbs, least significant first (h <= 128)
TruePow2(h) == [i \in 1..9 |-> IF (h \div 16) + 1 = i THEN 2 ^ (h % 16) ELSE 0]
\* a uint64 widened to nine limbs
Widen(c) == [i \in 1..9 |-> IF i <= 4 THEN c[i] ELSE 0]

\* C1: every Lookup call returns exactly the labels having an entry whose
\* block contains the address, in ascending order, each label once (and the
\* empty list when no entry contains it).
C1_LookupExactLabels ==
    lookupCalls > 0 =>
        /\ Range(labels) = MatchingLabels(meta, lookedAddr)
        /\ IsAscending(labels)

\* C1 witness: a Lookup whose address is contained in two entries of one
\* label and in an entry of another label, scanned in descending label order
C1_Witness ==
    /\ lookupCalls > 0
    /\ Len(labels) = 2
    /\ ~meta.nil
    /\ LookupScan(meta.entries, lookedAddr, <<>>, {}) # labels
    /\ \E i, j \in DOMAIN meta.entries :
          /\ i # j
          /\ meta.entries[i].Label = meta.entries[j].Label
          /\ Contains(meta.entries[i].Prefix, lookedAddr)
          /\ Contains(meta.entries[j].Prefix, lookedAddr)

\* C2: an accepted range (count <= 4096) gets exactly 2^(A-p) Lookup calls
\* and an evaluated total of 2^(A-p).
C2_EnumeratesWholeRange ==
    (pc = "ready" /\ report.kind = "range" /\ EvaluatingRange) =>
        /\ lookupCalls = 2 ^ hostBitsOf(prefix)
        /\ report.total = 2 ^ hostBitsOf(prefix)

C4_ReportsExactCount ==
    (EvaluatingRange /\ pc = "ready" /\ report.kind = "toolarge") =>
        /\ Widen(report.count) = TruePow2(BitLen(raw.addr) - raw.bits)
        /\ report.threshold = defaultThreshold

\* C5: lastAddrInPrefix keeps the bits before the prefix length and sets
\* every bit from the prefix length on, for every prefix length 0..A.
C5_LastAddrBits ==
    pc = "lastdone" =>
        /\ Len(lastAddr) = Len(prefix.addr)
        /\ \A i \in 0..(BitLen(prefix.addr) - 1) :
              Bit(lastAddr, i) = IF i < prefix.bits THEN Bit(prefix.addr, i) ELSE 1

\* C5 witness: a prefix length inside a byte, on an address that has host
\* bits set and host bits clear in that byte
C5_Witness ==
    /\ pc = "lastdone"
    /\ prefix.bits % 8 # 0
    /\ \E i, j \in prefix.bits..(8 * ((prefix.bits \div 8) + 1) - 1) :
          Bit(prefix.addr, i) = 1 /\ Bit(prefix.addr, j) = 0
    /\ \E i \in 0..(prefix.bits - 1) : Bit(prefix.addr, i) = 0 /\ i \div 8 = prefix.bits \div 8

\* C6: two owned addresses of one evaluation are counted under the same
\* distribution key if and only if Lookup returned the same label set for both.
C6_KeyIffSameLabelSet ==
    \A g1, g2 \in groups : (g1[1] = g2[1]) <=> (g1[2] = g2[2])

\* a payload that parses to at least one entry
HasEntry(payload) ==
    /\ payload.ok
    /\ \E i \in DOMAIN payload.obj :
          LET v == payload.obj[i].val
          IN /\ v.list
             /\ \A k \in DOMAIN v.items : v.items[k].str
             /\ \E k \in DOMAIN v.items : ParsePrefixOK(v.items[k].text)

\* a cache location from which a store can be loaded
Loadable(c) == c.on /\ c.meta.exists /\ HasEntry(c.meta.data)

\* the store parsed from a payload (its keys visited in the order written)
StoreOf(payload) ==
    newMetaData(parseMetaJSON(payload, [i \in 1..Len(payload.obj) |-> i]).entries)

\* the latest fetch's network call failed or answered neither 200 nor 304
NetworkFailed ==
    fetchN > 0 /\ (env.net = "error" \/ (env.net = "response" /\ env.status \notin {200, 304}))

C8_NotModifiedServesCache ==
    (fetchN > 0 /\ env.net = "response" /\ env.status = 304) =>
        /\ out.requests = 1
        /\ cache = before
        /\ IF Loadable(before)
           THEN /\ out.err = ""
                /\ out.meta = StoreOf(before.meta.data)
                /\ writer.known => out.meta.entries = writer.meta.entries
           ELSE out.err # ""

\* C8 witness: a 304 answered from a payload of several keys that an earlier
\* fetch of this run wrote
C8_Witness ==
    /\ fetchN > 0
    /\ env.net = "response"
    /\ env.status = 304
    /\ writer.known
    /\ out.err = ""
    /\ Len(before.meta.data.obj) >= 2
    /\ Len(out.meta.entries) >= 3

\* C9: after a 200 fetch with a usable payload whose cache writes succeed,
\* the cache record is exactly that response's body and that response's
\* token: no token of an earlier response stays beside the new payload.
C9_RecordIsThisResponse ==
    ( /\ fetchN > 0
      /\ env.net = "response" /\ env.status = 200 /\ env.readOK
      /\ HasEntry(env.body)
      /\ before.on
      /\ env.fs = FsOK ) =>
        /\ cache.meta = File(env.body)
        /\ readETag(cache) = env.etag

\* C10: whenever a loadable cached payload exists at the cache location, no
\* acquisition failure of a fetch (transport error, unexpected status,
\* unreadable body, a 200 payload without entries) surfaces as an error: the
\* cache is tried before any failure is returned.
C10_NoFailureWhileCacheLoadable ==
    (fetchN > 0 /\ Loadable(before)) => (out.err = "")

\* C11: a fetch whose context ends (deadline or cancellation), before the
\* response arrives or while the body is read, returns the store of the
\* cached payload, not an error, when a loadable cache exists.
C11_CancelledFetchServesCache ==
    (fetchN > 0 /\ cancelled # "none" /\ Loadable(before)) =>
        /\ out.err = ""
        /\ out.meta = StoreOf(before.meta.data)

\* C12: against every store (nil and empty included) every input ends in one
\* report and nothing else: the single-address report when the text parses
\* as a bare address, else the too-large report or the range summary when it
\* parses as address/length, else the invalid-input report; a text failing
\* both parses is not interpreted at all (no Lookup, no prefix).
C12_OneOutcomePerInput ==
    /\ pc \in {"ready", "loop"}
    /\ (pc = "loop") =>
          /\ ~ParseAddrOK(raw) /\ ParsePrefixOK(raw)
          /\ report = NoReport
    /\ (pc = "ready" /\ report # NoReport) =>
          /\ ParseAddrOK(raw) => (report.kind = "addr" /\ lookupCalls = 1
                                    /\ lookedAddr = raw.addr)
          /\ (~ParseAddrOK(raw) /\ ParsePrefixOK(raw)) =>
                (report.kind \in {"toolarge", "range"} /\ prefix = ParsePrefix(raw))
          /\ (~ParseAddrOK(raw) /\ ~ParsePrefixOK(raw)) =>
                /\ report.kind = "invalid"
                /\ lookupCalls = 0
                /\ prefix = NoPrefix
                /\ labels = <<>>

\* C12 witness: an address with a prefix length out of range, reported as
\* invalid against the nil store, no Lookup made for it
C12_Witness ==
    /\ pc = "ready"
    /\ meta.nil
    /\ raw = Raw(V4(10, 0, 0, 0), TRUE, 33)
    /\ report.kind = "invalid"
    /\ lookupCalls = 0

RECURSIVE RangeAlone(_, _, _, _, _, _)
\* the summary of a range walked from a to last with fresh counters
RangeAlone(m, a, last, oc, nc, sets) ==
    LET ls == Lookup(m, a)
        oc2 == IF Len(ls) # 0 THEN oc + 1 ELSE oc
        nc2 == IF Len(ls) # 0 THEN nc ELSE nc + 1
        sets2 == IF Len(ls) # 0 THEN Bump(sets, Signature(ls)) ELSE sets
    IN IF a = last
       THEN Report("range", <<>>, U64(0), oc2 + nc2, oc2, nc2, Distribution(sets2))
       ELSE RangeAlone(m, AddrNext(a), last, oc2, nc2, sets2)

\* the report of input r evaluated on its own against store m
ReportAlone(m, r) ==
    IF ParseAddrOK(r) THEN Report("addr", Lookup(m, r.addr), U64(0), 0, 0, 0, <<>>)
    ELSE IF ~ParsePrefixOK(r) THEN InvalidReport(r)
    ELSE LET p == ParsePrefix(r)
         IN IF TooLarge(countOf(p))
            THEN Report("toolarge", <<>>, countOf(p), 0, 0, 0, <<>>)
            ELSE RangeAlone(m, p.addr, lastAddrInPrefix(p), 0, 0, <<>>)

RECURSIVE UpToExit(_)
\* the lines before the first exit/quit
UpToExit(ls) ==
    IF ls = <<>> \/ Head(ls).kind = "exit" THEN <<>>
    ELSE <<Head(ls)>> \o UpToExit(Tail(ls))

\* the lines of ls that main hands to evaluateInput, in order: every
\* argument, or every non-blank line before the first exit/quit
Evaluated(ls) ==
    IF interactive THEN SelectSeq(UpToExit(ls), LAMBDA l : l.kind # "blank") ELSE ls

\* C13: the reports printed for a batch are, in input order, the reports each
\* input gets when evaluated alone against the store; after an invalid or a
\* too-large input the batch goes on, and a finished run has printed one
\* report per input.
C13_BatchReportsIndependent ==
    /\ (pc = "ready") =>
          Len(printed) = Len(Evaluated(SubSeq(argv, 1, argi - 1)))
    /\ (pc = "loop") =>
          Len(printed) + 1 = Len(Evaluated(SubSeq(argv, 1, argi - 1)))
    /\ (pc = "exit" /\ exitCode = 0) => Len(printed) = Len(Evaluated(argv))
    /\ Len(printed) <= Len(Evaluated(argv))
    /\ \A k \in 1..Len(printed) :
          printed[k] = ReportAlone(meta, Evaluated(argv)[k].raw)

\* C13 witness: two arguments, the first too large, the second a range
\* with owned addresses under two labels, both reported
C13_Witness ==
    /\ ~interactive
    /\ pc = "exit"
    /\ Len(printed) = 2
    /\ printed[1].kind = "toolarge"
    /\ printed[2].kind = "range"
    /\ printed[2].owned = 4
    /\ Len(printed[2].dist) = 2

C15_CallersUndisturbed ==
    \A c \in DOMAIN callers :
        /\ callers[c].store = meta
        /\ (callers[c].pc = "done") =>
              callers[c].report = ReportAlone(callers[c].store, callers[c].raw)

\* C15 witness: two callers with range evaluations that walk over the same
\* addresses and over different label lists, both done
C15_Witness ==
    /\ DOMAIN callers = 1..NCallers
    /\ callers[1].pc = "done" /\ callers[2].pc = "done"
    /\ callers[1].raw = Raw(V4(10, 0, 0, 0), TRUE, 30)
    /\ callers[2].raw = Raw(V4(10, 0, 0, 2), TRUE, 29)
    /\ callers[1].report.owned = 4
    /\ callers[2].report.owned = 3
    /\ callers[2].report.total = 6
    /\ Len(callers[2].report.dist) = 2

\* C16: whatever outside code writes into the slice it passed to the
\* constructor or into a slice Entries() returned, the store keeps the
\* entries it was built from: every later Entries() returns them and every
\* later Lookup answers from them.
C16_EntriesSealed ==
    (storeRef > 0) =>
        /\ heap[storeRef] = orig
        /\ (apiOut.op = "Entries") => apiOut.entries = orig
        /\ (apiOut.op = "Lookup") =>
              apiOut.labels = Lookup(newMetaData(orig), apiOut.addr)

\* C16 witness: an Entries() call made after the constructor's slice and a
\* slice returned by an earlier Entries() were both written to
C16_Witness ==
    /\ storeRef > 0
    /\ Len(orig) = 2
    /\ apiOut.op = "Entries"
    /\ apiOut.writesBefore = 2
    /\ heap[1] # orig
    /\ \E id \in held \ {1} : heap[id] # orig
    /\ apiOut.entries = orig

\* C18: Lookup on a nil store, with any address, and Lookup on any store
\* with the zero Addr return the empty list; a store built from zero entries
\* is a store like any other: Entries() is empty and Lookup returns the
\* empty list (not owned) for every address.
C18_LookupTotal ==
    /\ (apiOut.op = "Lookup") =>
          /\ (storeRef = 0 \/ ~IsValid(apiOut.addr)) => apiOut.labels = <<>>
          /\ (storeRef > 0 /\ orig = <<>>) => apiOut.labels = <<>>
    /\ (apiOut.op = "Entries" /\ storeRef > 0 /\ orig = <<>>) =>
          (apiOut.entries = <<>> /\ heap[storeRef] = <<>>)

\* C18 witness: a Lookup of a valid address on a nil store
C18_Witness ==
    /\ apiOut.op = "Lookup"
    /\ storeRef = 0
    /\ apiOut.addr = V4(10, 0, 0, 1)
    /\ apiOut.labels = <<>>

\* the (key, string) occurrences of the payload that yield an entry: the
\* key's value is a list of strings only and the string parses as a prefix
Accepted(pl) ==
    { <<i, k>> \in (DOMAIN pl.obj) \X (1..3) :
        /\ pl.obj[i].val.list
        /\ k \in DOMAIN pl.obj[i].val.items
        /\ \A j \in DOMAIN pl.obj[i].val.items : pl.obj[i].val.items[j].str
        /\ ParsePrefixOK(pl.obj[i].val.items[k].text) }

\* the entry an accepted occurrence stands for
EntryOf(pl, o) ==
    [Label |-> pl.obj[o[1]].key, Prefix |-> ParsePrefix(pl.obj[o[1]].val.items[o[2]].text)]

\* C17: parseMetaJSON returns one entry for each string that parses as a
\* prefix in a list made of strings only, under that list's key, and no
\* other entry; values that are no list, lists holding a non-string, and
\* strings that do not parse add nothing and raise no error; the call fails
\* exactly when the payload does not decode to an object or no entry results.
C17_EntryPerAcceptedString ==
    parsed.done =>
        /\ (parsed.err = "decode") <=> ~reader.ok
        /\ (parsed.err = "empty") <=> (reader.ok /\ Accepted(reader) = {})
        /\ (parsed.err # "") => parsed.entries = <<>>
        /\ (parsed.err = "") =>
              /\ Len(parsed.entries) = Cardinality(Accepted(reader))
              /\ \A o \in Accepted(reader) :
                    Cardinality({ i \in DOMAIN parsed.entries :
                                    parsed.entries[i] = EntryOf(reader, o) })
                    = Cardinality({ q \in Accepted(reader) :
                                      EntryOf(reader, q) = EntryOf(reader, o) })

\* C17 witness: a payload with a list holding an unparsable string between
\* two blocks and a list holding a non-string, parsed to the two blocks
C17_Witness ==
    /\ parsed.done
    /\ reader = Object(<< Member(LblApi, List(<< Str(CidrA), NotStr >>)),
                           Member(LblHooks, List(<< Str(CidrA), Str(Junk), Str(CidrB) >>)) >>)
    /\ parsed.err = ""
    /\ Len(parsed.entries) = 2

\* the token stored at the cache location when the latest fetch began
StoredToken == IF before.on /\ before.etag.exists THEN TrimSpace(before.etag.data) ELSE <<>>

\* C19 as stated: every fetch sends one request; the request has the
\* If-None-Match header exactly when a non-empty token is stored, its value
\* the stored token trimmed, which is the token of the last 200 response
\* that supplied one.
C19_HeaderIsLastSuppliedToken ==
    (fetchN > 0) =>
        /\ out.requests = 1
        /\ out.ifNoneMatch = StoredToken
        /\ \A i \in DOMAIN out.ifNoneMatch : ~IsSpace(out.ifNoneMatch[i])
        /\ (StoredToken # <<>> /\ tokenLog.suppliedBefore # <<>>) =>
              StoredToken = tokenLog.suppliedBefore

\* C19 amended: every fetch sends one request; the request has the
\* If-None-Match header exactly when a non-empty token is stored, its value
\* the stored token trimmed, which is the token a fetch last wrote there:
\* that of the last 200 response that had a token, a usable payload and
\* whose cache writes succeeded.
C19_HeaderIsLastWrittenToken ==
    (fetchN > 0) =>
        /\ out.requests = 1
        /\ out.ifNoneMatch = StoredToken
        /\ \A i \in DOMAIN out.ifNoneMatch : ~IsSpace(out.ifNoneMatch[i])
        /\ (tokenLog.writtenBefore # <<>>) => StoredToken = tokenLog.writtenBefore

\* C19 witness: a request carrying the token written by the first fetch of
\* the run, sent after a 200 response with another token and an unusable
\* payload
C19_Witness ==
    /\ fetchN = 3
    /\ tokenLog.writtenBefore = TokenV2
    /\ tokenLog.suppliedBefore = TokenV1
    /\ out.ifNoneMatch = TokenV2
    /\ out.requests = 1

\* some input has been handed to evaluateInput in this run
Classifying ==
    pc = "loop" \/ report # NoReport \/ printed # <<>> \/ lookupCalls > 0 \/ prefix # NoPrefix

\* C20: a run of main makes one fetch, before any input is classified, and
\* classifies against the store that fetch returned; past the fetch no step
\* makes a request or touches the cache location; when the fetch fails the
\* process exits with status 1 and no input is classified.
C20_SingleFetchBeforeInputs ==
    /\ fetchN <= 1
    /\ (pc # "start") =>
          /\ fetchN = 1 /\ out.requests = 1
          /\ acquired = [cache |-> cache, fetchN |-> fetchN]
    /\ Classifying => (fetchN = 1 /\ out.err = "" /\ meta = out.meta)
    /\ (fetchN = 1 /\ out.err # "") =>
          (pc = "exit" /\ exitCode = 1 /\ ~Classifying /\ argi = 1)

\* C20 witness: an interactive run that classified two lines against the
\* store its one fetch loaded from the cache, and returned
C20_Witness ==
    /\ interactive
    /\ pc = "exit"
    /\ exitCode = 0
    /\ fetchN = 1
    /\ out.loadTried
    /\ Len(printed) = 2
    /\ printed[2].kind = "range"

\* the input being evaluated is X/32 or X/128
FullLength == ~ParseAddrOK(raw) /\ ParsePrefixOK(raw) /\ raw.bits = BitLen(raw.addr)

\* C21: X/32 and X/128 are evaluated as a range of the one address X: never
\* too large, last == first == X, one Lookup (of X), total 1, and counted
\* as owned exactly when the input X alone is reported with labels.
C21_FullLengthIsOneAddress ==
    FullLength =>
        /\ (pc = "loop") => (lookupCalls = 0 /\ addr = raw.addr /\ lastAddr = raw.addr)
        /\ (pc = "ready") =>
              /\ report.kind = "range"
              /\ lookupCalls = 1
              /\ lookedAddr = raw.addr
              /\ lastAddr = raw.addr
              /\ report.total = 1
              /\ report.owned + report.notOwned = 1
              /\ (report.owned = 1) <=>
                    (ReportAlone(meta, Raw(raw.addr, FALSE, 0)).labels # <<>>)

\* C21 witness: an owned IPv6 address evaluated as its /128
C21_Witness ==
    /\ FullLength
    /\ pc = "ready"
    /\ raw.addr = Db8
    /\ raw.bits = 128
    /\ report.owned = 1
    /\ report.total = 1

RECURSIVE SumCounts(_)
\* the sum of the counts of the distribution lines
SumCounts(dist) == IF dist = <<>> THEN 0 ELSE Head(dist).n + SumCounts(Tail(dist))

\* C22: while a range is enumerated and in its summary, every address
\* looked up is counted once, as owned or as not owned (owned + notOwned =
\* total = Lookup calls made); the distribution's counts sum to owned, no
\* line has count zero, and the signatures are in strictly ascending order.
C22_CountersConsistent ==
    /\ (pc = "loop") => (ownedCount + nonOwnedCount = lookupCalls)
    /\ (pc = "ready" /\ report.kind = "range") =>
          /\ report.owned = ownedCount /\ report.notOwned = nonOwnedCount
          /\ report.owned + report.notOwned = report.total
          /\ report.total = lookupCalls
          /\ SumCounts(report.dist) = report.owned
          /\ \A i \in DOMAIN report.dist : report.dist[i].n > 0
          /\ IsAscending([i \in DOMAIN report.dist |-> report.dist[i].sig])

\* C22 witness: a summary of eight addresses, three not owned, the owned
\* ones under two signatures of which one was counted three times
C22_Witness ==
    /\ pc = "ready"
    /\ report.kind = "range"
    /\ report.total = 8
    /\ report.notOwned = 3
    /\ Len(report.dist) = 2
    /\ \E i \in DOMAIN report.dist : report.dist[i].n = 3

\* the number made of the last two bytes of address a
Low16(a) == a[Len(a) - 1] * 256 + a[Len(a)]
\* addresses a and b agree in all bytes but the last two
SameUpper(a, b) ==
    /\ Len(a) = Len(b)
    /\ SubSeq(a, 1, Len(a) - 2) = SubSeq(b, 1, Len(b) - 2)

\* C23: the enumeration of an accepted range starts at or below the last
\* address computed for it, each step moves to the next higher address, the
\* number of Lookup calls made is the distance walked from the start, and
\* the walk ends on the last address after at most defaultThreshold calls
\* without ever stepping past the highest address of the family (where Next
\* yields the zero Addr).
C23_LoopReachesLast ==
    /\ (pc = "loop") =>
          /\ IsValid(addr)
          /\ SameUpper(prefix.addr, addr)
          /\ SameUpper(prefix.addr, lastAddr)
          /\ ~StrLess(lastAddr, addr)
          /\ lookupCalls = Low16(addr) - Low16(prefix.addr)
          /\ Low16(lastAddr) - Low16(prefix.addr) < defaultThreshold
          /\ (lookupCalls > 0) =>
                (addr = AddrNext(lookedAddr) /\ StrLess(lookedAddr, addr))
    /\ (pc = "ready" /\ report.kind = "range") =>
          /\ IsValid(addr)
          /\ addr = lastAddr
          /\ lookedAddr = lastAddr
          /\ lookupCalls = Low16(lastAddr) - Low16(prefix.addr) + 1
          /\ lookupCalls <= defaultThreshold

\* C23 witness: defaultThreshold addresses were walked and the walk ended on
\* the highest address of a family
C23_Witness ==
    /\ pc = "ready"
    /\ report.kind = "range"
    /\ lastAddr \in {AllOnes4, AllOnes6}
    /\ lookedAddr = lastAddr
    /\ lookupCalls = defaultThreshold

\* the latest fetch received a 200 response whose body parses to an entry
FullFetch ==
    /\ fetchN > 0
    /\ env.net = "response" /\ env.status = 200 /\ env.readOK
    /\ HasEntry(env.body)

\* C24: a fetch changes the cache location only if it received a 200
\* response whose body parses to at least one entry, and then each file is
\* either as it was or holds what that response brought; every other fetch
\* (304, transport failure, unexpected status, unreadable body, undecodable
\* or entry-less 200 payload) leaves payload and token as they were.
C24_CacheWrittenOnlyByFullFetch ==
    (fetchN > 0) =>
        /\ (cache # before) => FullFetch
        /\ ~FullFetch => (cache.meta = before.meta /\ cache.etag = before.etag)
        /\ cache.on = before.on
        /\ cache.meta \in {before.meta, File(env.body)}
        /\ cache.etag \in {before.etag, File(env.etag)}

\* C24 witness: a 200 response with a token and a decodable payload without
\* a usable entry met a cache holding a payload and a token, and left both
C24_Witness ==
    /\ fetchN > 0
    /\ env.net = "response" /\ env.status = 200 /\ env.readOK
    /\ env.body = PayloadEmpty
    /\ env.etag = TokenV2
    /\ env.fs = FsOK
    /\ before.on /\ before.meta = File(PayloadA) /\ before.etag.exists
    /\ cache = before

\* C25: a fetch that received a 200 response whose body parses to at least
\* one entry returns no error and the store of that body, whether caching is
\* off, MkdirAll fails, or a WriteFile of the payload or the token fails.
C25_SaveFailureNotFatal ==
    FullFetch =>
        /\ out.err = ""
        /\ out.meta = StoreOf(env.body)
        /\ ~out.meta.nil /\ Len(out.meta.entries) > 0

\* C25 witness: the payload could not be written over a cached one, the
\* cache kept the old payload, and the fetch returned the new payload's store
C25_Witness ==
    /\ FullFetch
    /\ before.on
    /\ before.meta = File(PayloadA)
    /\ env.body = PayloadB
    /\ saveFails(before, env.etag, env.fs)
    /\ ~env.fs.writeMeta
    /\ cache.meta = File(PayloadA)
    /\ out.err = ""
    /\ out.meta = StoreOf(PayloadB)

\* C26: against an origin that answers 304 only to the token of the payload
\* it holds, every store a fetch returns on a 304 is the store parsed from
\* the payload the origin holds at that fetch.
C26_NotModifiedIsCurrent ==
    (fetchN > 0 /\ env.net = "response" /\ env.status = 304 /\ out.err = "") =>
        out.meta = StoreOf(origin.body)

\* entry x does not come after entry y: its label is lower, or the labels
\* are equal and the text of its block is not higher
InOrder(x, y) ==
    \/ StrLess(x.Label, y.Label)
    \/ /\ x.Label = y.Label
       /\ ~StrLess(PrefixString(y.Prefix), PrefixString(x.Prefix))

\* C27: every store a fetch returns, parsed from a 200 body or from the
\* cache file, has at least one entry, has its entries in the order of label
\* and then of the block's text, and is the same sequence in whatever order
\* the keys of the payload were visited.
C27_ReturnedStoreOrdered ==
    (fetchN > 0 /\ out.err = "") =>
        /\ ~out.meta.nil
        /\ Len(out.meta.entries) > 0
        /\ \A i, j \in DOMAIN out.meta.entries :
              (i < j) => InOrder(out.meta.entries[i], out.meta.entries[j])
        /\ \A ord \in Orders(Len(PayloadParsed(before, env).obj)) :
              out.meta.entries = parseMetaJSON(PayloadParsed(before, env), ord).entries

\* C27 witness: after a transport failure the store came from a cached
\* payload that lists a label's blocks in the reverse of their text order
\* and its labels in the reverse of theirs
C27_Witness ==
    /\ fetchN > 0
    /\ env.net = "error"
    /\ out.err = ""
    /\ out.loadTried
    /\ before.meta = File(PayloadA)
    /\ Len(out.meta.entries) = 3
    /\ out.meta.entries[1].Label = LblApi
    /\ out.meta.entries[2].Prefix = [addr |-> V4(10, 0, 0, 10), bits |-> 32]

\* C28: the report of an input that parses neither as an address nor as a
\* block carries the reason of the first parse tried on it, that of
\* netip.ParseAddr, and no Lookup was made for the input.
C28_InvalidCarriesFirstReason ==
    (pc = "ready" /\ report.kind = "invalid") =>
        /\ ~ParseAddrOK(raw) /\ ~ParsePrefixOK(raw)
        /\ lookupCalls = 0
        /\ report.reason = ParseAddrErr(raw)

====
